---- MODULE Spec2Model ----
(***************************************************************************)
(* A model of src/src/App.tsx: the track-name parser, the Spotify request  *)
(* helpers and the playlist pipeline of the App component.                 *)
(*                                                                         *)
(* Strings are TLA+ strings; a character is a string of length one.        *)
(***************************************************************************)
EXTENDS Integers, Sequences, FiniteSets, TLC

(***************************************************************************)
(* Bounds of the model.                                                    *)
(***************************************************************************)
\* Longest string of the enumerated inputs of parseTrackName.
MaxLen == 4

\* Most files of one folder pick.
MaxFiles == 2

\* Most files of the folder Album, whose run is followed through addTracks.
MaxTracks == 201

\* How many times the login button is clicked.
MaxLogins == 2

\* How many messages may have left the browser when the page is reloaded.
MaxMessages == 3

(***************************************************************************)
(* Characters and small helpers.                                           *)
(***************************************************************************)
Char(s, i) == SubSeq(s, i, i)

Min(S) == CHOOSE x \in S : \A y \in S : x <= y

Max(S) == CHOOSE x \in S : \A y \in S : x >= y

\* [0-9] of the regular expression of line 56.
Digits == {"0", "1", "2", "3", "4", "5", "6", "7", "8", "9"}

\* \s of the regular expression of line 56 and the characters trim() removes
\* (the ones the inputs of the model use).
WhiteSpace == {" ", "\t"}

\* [-._)] of the regular expression of line 56.
Separators == {"-", ".", "_", ")"}

\* [^/.] of the regular expression of line 55 excludes these.
NotInExtension == {"/", "."}

(***************************************************************************)
(* parseTrackName, lines 54-64.                                            *)
(***************************************************************************)
\* /\.[^/.]+$/ matches at position i: a dot, then one or more characters
\* that are neither "/" nor ".", up to the end of the string.
ExtensionMatchAt(s, i) ==
    /\ Char(s, i) = "."
    /\ i < Len(s)
    /\ \A j \in (i + 1)..Len(s) : Char(s, j) \notin NotInExtension

\* filename.replace(/\.[^/.]+$/, ""): the leftmost match is removed.
StripExtension(s) ==
    LET m == {i \in 1..Len(s) : ExtensionMatchAt(s, i)}
    IN  IF m = {} THEN s ELSE SubSeq(s, 1, Min(m) - 1)

\* A greedy class* from position i: the position after the longest run.
RECURSIVE SpanEnd(_, _, _)
SpanEnd(s, i, class) ==
    IF i <= Len(s) /\ Char(s, i) \in class
    THEN SpanEnd(s, i + 1, class)
    ELSE i

\* The expression with [0-9]* for [0-9]+: the digits are optional.
StripTrackNumberOptionalDigits(s) ==
    LET d == SpanEnd(s, 1, Digits)
        a == SpanEnd(s, d, WhiteSpace)
        b == SpanEnd(s, a, Separators)
        c == SpanEnd(s, b, WhiteSpace)
    IN  SubSeq(s, c, Len(s))

\* name.replace(/^[0-9]+\s*[-._)]*\s*/, ""): at least one digit is needed for a
\* match; every quantifier is greedy and the classes are disjoint.
StripTrackNumber(s) ==
    LET d == SpanEnd(s, 1, Digits)
    IN  IF d = 1
        THEN s
        ELSE LET a == SpanEnd(s, d, WhiteSpace)
                 b == SpanEnd(s, a, Separators)
                 c == SpanEnd(s, b, WhiteSpace)
             IN  SubSeq(s, c, Len(s))

\* The positions where " - " occurs in s.
DelimiterAt(s) == {i \in 1..(Len(s) - 2) : SubSeq(s, i, i + 2) = " - "}

\* name.split(" - "): cut at the leftmost occurrence, then split the rest.
RECURSIVE Split(_)
Split(s) ==
    IF DelimiterAt(s) = {}
    THEN <<s>>
    ELSE LET i == Min(DelimiterAt(s))
         IN  <<SubSeq(s, 1, i - 1)>> \o Split(SubSeq(s, i + 3, Len(s)))

\* parts.join(" - ")
RECURSIVE Join(_)
Join(parts) ==
    IF Len(parts) = 0 THEN ""
    ELSE IF Len(parts) = 1 THEN parts[1]
    ELSE parts[1] \o " - " \o Join(Tail(parts))

RECURSIVE TrimStart(_)
TrimStart(s) ==
    IF Len(s) > 0 /\ Char(s, 1) \in WhiteSpace
    THEN TrimStart(SubSeq(s, 2, Len(s)))
    ELSE s

RECURSIVE TrimEnd(_)
TrimEnd(s) ==
    IF Len(s) > 0 /\ Char(s, Len(s)) \in WhiteSpace
    THEN TrimEnd(SubSeq(s, 1, Len(s) - 1))
    ELSE s

\* String.prototype.trim
Trim(s) == TrimEnd(TrimStart(s))

\* The branch of lines 58-63 on the split parts.
FormatParts(name, parts) ==
    IF Len(parts) >= 2
    THEN LET artist == Trim(parts[1])
             title == Trim(Join(Tail(parts)))
         IN  title \o " " \o artist
    ELSE Trim(name)

parseTrackName(filename) ==
    LET name == StripTrackNumber(StripExtension(filename))
    IN  FormatParts(name, Split(name))

(***************************************************************************)
(* The inputs parseTrackName is checked on: every string over a small      *)
(* alphabet up to MaxLen characters, and longer structured file names.     *)
(***************************************************************************)
Alphabet == {"1", " ", "-", ".", "a", "/", ")"}

RECURSIVE StringsUpTo(_)
StringsUpTo(n) ==
    IF n = 0 THEN {""}
    ELSE LET shorter == StringsUpTo(n - 1)
         IN  shorter \cup {s \o c : s \in shorter, c \in Alphabet}

NumberPrefixes == {"", "05 - ", "7.", "12) ", "3_ - ", "- ", "\t"}

Bodies == {"Artist - Title", "Interlude", "a - b - c", " a  -  b ", "a -b",
           "a - ", " - ", "2Pac - X"}

Extensions == {"", ".mp3", ".", ".tar.gz", ".a/b", " .wav"}

StructuredNames == {p \o b \o e : p \in NumberPrefixes, b \in Bodies, e \in Extensions}

FileNameA == "02 - Queen - Bohemian Rhapsody.mp3"

FileNameB == "NoMatchXYZ123.flac"

\* File j of the folder Album.
AlbumFileName(j) ==
    ToString(j) \o " - Artist - Song " \o ToString(j) \o ".mp3"

\* The file names of the folders on the disk.
FileNames == {FileNameA, FileNameB} \cup {AlbumFileName(j) : j \in 1..MaxTracks}

\* parseTrackName on those names, computed once.
TrackNameOf == [f \in FileNames |-> parseTrackName(f)]

NormalizerInputs ==
    StringsUpTo(MaxLen) \cup StructuredNames
        \cup {"05 - Artist - Title.mp3", "Interlude.wav", FileNameA, FileNameB}

(***************************************************************************)
(* spotifyFetch, lines 67-87, and what the remote may answer.              *)
(***************************************************************************)
\* Later entries win, as in the object spread of lines 73-78.
MergeHeaders(base, extra) ==
    [h \in (DOMAIN base) \cup (DOMAIN extra) |->
        IF h \in DOMAIN extra THEN extra[h] ELSE base[h]]

NoHeaders == [h \in {} |-> ""]

\* The argument of fetch, lines 72-79.  body is the value handed to
\* JSON.stringify (the remote parses it back), "" when there is none.
FetchRequest(url, method, body, headers, token) ==
    [url |-> url,
     method |-> method,
     body |-> body,
     headers |-> MergeHeaders(
         [Authorization |-> "Bearer " \o token, ContentType |-> "application/json"],
         headers)]

NoRequest == [url |-> ""]

\* What fetch settles with: a response, or a rejection (the network failed).
\* text is what res.text() gives (read for an error), json what res.json() gives.
HttpResponse(status, text, json) ==
    [kind |-> "response", status |-> status, text |-> text, json |-> json]

NoJson == [none |-> TRUE]

NetworkError == [kind |-> "network_error"]

\* res.ok
ResponseOk(res) == res.status >= 200 /\ res.status <= 299

\* The statuses the remote answers with when it does not serve the request:
\* rate limited, and a server error.
ErrorStatuses == {429, 500}

ErrorText(st) == IF st = 429 THEN "rate limited" ELSE "server error"

Failures ==
    {HttpResponse(st, ErrorText(st), NoJson) : st \in ErrorStatuses} \cup {NetworkError}

Threw(message) == [threw |-> TRUE, message |-> message]

Resolved(value) == [threw |-> FALSE, value |-> value]

\* err instanceof Error ? err.message : String(err), for the rejection of fetch
FetchFailedMessage == "Failed to fetch"

\* What the await of spotifyFetch gives once fetch has settled with res.
spotifyFetch(res) ==
    IF res.kind = "network_error"
    THEN Threw(FetchFailedMessage)
    ELSE IF ~ResponseOk(res)
    THEN Threw("Spotify API error (" \o ToString(res.status) \o "): " \o res.text)
    ELSE Resolved(res.json)

(***************************************************************************)
(* The requests of lines 89-133.                                           *)
(***************************************************************************)
\* encodeURIComponent on the characters file names of the model hold.
EncodeChar(c) ==
    CASE c = " " -> "%20"
      [] c = "\t" -> "%09"
      [] c = "/" -> "%2F"
      [] OTHER -> c

RECURSIVE encodeURIComponent(_)
encodeURIComponent(s) ==
    IF Len(s) = 0 THEN ""
    ELSE EncodeChar(Char(s, 1)) \o encodeURIComponent(SubSeq(s, 2, Len(s)))

ProfileRequest(token) ==
    FetchRequest("https://api.spotify.com/v1/me", "GET", "", NoHeaders, token)

CreateRequest(userId, name, token) ==
    FetchRequest("https://api.spotify.com/v1/users/" \o userId \o "/playlists",
                 "POST",
                 [name |-> name, description |-> "Created from local folder",
                  public |-> FALSE],
                 NoHeaders, token)

SearchUrl(query) ==
    "https://api.spotify.com/v1/search?q=" \o encodeURIComponent(query)
        \o "&type=track&limit=1"

SearchRequest(query, token) ==
    FetchRequest(SearchUrl(query), "GET", "", NoHeaders, token)

\* The batch size of addTracks, line 125.
ChunkSize == 100

\* uris.slice(i, i + 100), i counted from 0.
Slice(uris, from, to) ==
    SubSeq(uris, from + 1, IF to < Len(uris) THEN to ELSE Len(uris))

TracksUrl(playlistId) ==
    "https://api.spotify.com/v1/playlists/" \o playlistId \o "/tracks"

AddTracksRequest(playlistId, chunk, token) ==
    FetchRequest(TracksUrl(playlistId), "POST", [uris |-> chunk], NoHeaders, token)

\* searchTrack, line 117, on the parsed body: the first item's uri, or null.
NoUri == ""

FirstUri(result) ==
    IF Len(result.tracks.items) > 0 THEN result.tracks.items[1].uri ELSE NoUri

(***************************************************************************)
(* The remote catalog: the profile of the token's user, the playlists      *)
(* created so far, and a track for a search when it finds one.             *)
(***************************************************************************)
UserId == "user1"

PlaylistId(n) == "pl" \o ToString(n)

PlaylistUrl(id) == "https://open.spotify.com/playlist/" \o id

\* The q parameter of a search URL.
QueryOf(url) ==
    SubSeq(url, Len("https://api.spotify.com/v1/search?q=") + 1,
           Len(url) - Len("&type=track&limit=1"))

\* The track the catalog ranks first for a search URL, when it has a match.
TrackUri(url) == "spotify:track:" \o QueryOf(url)

ProfileResponses == {HttpResponse(200, "", [id |-> UserId])} \cup Failures

CreatedBody(id) == [id |-> id, external_urls |-> [spotify |-> PlaylistUrl(id)]]

SearchBody(items) == [tracks |-> [items |-> items]]

SearchResponses(url) ==
    {HttpResponse(200, "", SearchBody(<<>>)),
     HttpResponse(200, "", SearchBody(<<[uri |-> TrackUri(url)]>>))} \cup Failures

SnapshotBody == [snapshot_id |-> "snap"]

\* Creating a playlist answers 201 with the new playlist, or fails.
CreateResponses(id) == {HttpResponse(201, "", CreatedBody(id))} \cup Failures

\* Adding tracks answers 201 with a snapshot, or fails.
AddTracksResponses == {HttpResponse(201, "", SnapshotBody)} \cup Failures

\* Whether the remote served the request it answered with res.
Served(res) == res.kind = "response" /\ ResponseOk(res)

VARIABLES
    accessToken,  \* useState, line 137
    trackNames,   \* useState, line 138
    folderName,   \* useState, line 139
    logs,         \* useState, line 140
    playlistUrl,  \* useState, line 141
    runs,         \* the calls of handleCreatePlaylist, by click
    playlists,    \* the remote's playlists, in creation order
    arg,          \* the argument of the call under check
    ret,          \* what the call returned, NotCalled before it
    location,     \* window.location: the page shown and the code parameter
    storage,      \* localStorage["spotify_code_verifier"]
    login,        \* the call of login, lines 32-46
    effect,       \* the effect of lines 143-160 and its fetches in flight
    network       \* the messages that left the browser for the two endpoints

appVars == <<accessToken, trackNames, folderName, logs, playlistUrl>>

pipelineVars == <<appVars, runs, playlists>>

parserVars == <<arg, ret>>

authVars == <<location, storage, login, effect, network>>

vars == <<pipelineVars, parserVars, authVars>>

\* undefined, the value of a field a parsed body does not have.
Undefined == "undefined"

\* !value, for the strings of lines 145 and 147 and of the render at line 162
Falsy(value) == value \in {"", Undefined}

(***************************************************************************)
(* The log entries of lines 182-224, without their emoji.                  *)
(***************************************************************************)
FolderEntry(name) == "Folder: " \o name

TracksEntry == "Tracks:"

ProcessingEntry == "\nProcessing..."

\* The entry without the link.
CreatedEntryWithoutUrl(url) == "Playlist created"

CreatedEntry(url) == "Playlist created: " \o url

FoundEntry(name) == "Found: " \o name

NotFoundEntry(name) == "Not found: " \o name

SearchErrorEntry(name, message) == "Error searching \"" \o name \o "\": " \o message

AddedEntry(n) == "Added " \o ToString(n) \o " tracks!"

NoTracksEntry == "No tracks found."

FailedEntry(message) == "Failed: " \o message

AlertMessage == "Please select a folder first!"

(***************************************************************************)
(* A call of handleCreatePlaylist, lines 185-226.  trackNames, folderName  *)
(* and accessToken are the values of the render the handler closes over;   *)
(* me, playlist, uris and the loop positions are its locals.  sent,        *)
(* received, emitted and alert record what the call did: the requests it   *)
(* handed to fetch, what fetch settled with, the entries it appended to    *)
(* the log, and the alert it raised.                                       *)
(***************************************************************************)
IdleRun ==
    [pc |-> "idle", trackNames |-> <<>>, folderName |-> "", accessToken |-> "",
     me |-> NoJson, playlist |-> NoJson, k |-> 0, uris |-> <<>>, i |-> 0,
     request |-> NoRequest, sent |-> <<>>, received |-> <<>>, emitted |-> <<>>,
     alert |-> ""]

\* A call that is made twice, the first time without await.
SendTwice(run, pc, req) ==
    [run EXCEPT !.pc = pc, !.request = req, !.sent = @ \o <<req, req>>]

\* The run hands req to fetch and suspends at the await named pc.
Send(run, pc, req) ==
    [run EXCEPT !.pc = pc, !.request = req, !.sent = Append(@, req)]

\* fetch settles with res.
Receive(run, res) ==
    [run EXCEPT !.request = NoRequest, !.received = Append(@, res)]

\* setLogs((prev) => [...prev, entry]) by the run
Emit(run, entries) == [run EXCEPT !.emitted = @ \o entries]

\* A handler that stays suspended where it should return.
FinishSuspended(run, pc) == [run EXCEPT !.pc = "suspended"]

Finish(run, pc) == [run EXCEPT !.pc = pc]

\* A handler without the guard of line 186.
EmptyInputUnguarded(names) == FALSE

\* !trackNames.length, line 186
EmptyInput(names) == Len(names) = 0

\* A catch that logs the failure and falls through to the search loop.
FailedFallsThrough(r, run, message) ==
    /\ logs' = Append(logs, FailedEntry(message))
    /\ runs' = [runs EXCEPT
                   ![r] = Send([Emit(run, <<FailedEntry(message)>>) EXCEPT !.k = 1],
                               "searchTrack",
                               SearchRequest(run.trackNames[1], run.accessToken))]

\* The catch of lines 220-225.
Failed(r, run, message) ==
    /\ logs' = Append(logs, FailedEntry(message))
    /\ runs' = [runs EXCEPT
                   ![r] = Finish(Emit(run, <<FailedEntry(message)>>), "failed")]

\* Lines 186-190: the guard, the first entry, and the profile request.
HandleCreatePlaylist(r) ==
    /\ ~Falsy(accessToken)
    /\ runs[r].pc = "idle"
    /\ \A q \in 1..(r - 1) : runs[q].pc # "idle"
    /\ IF EmptyInput(trackNames)
       THEN /\ runs' = [runs EXCEPT ![r] = [@ EXCEPT !.pc = "alerted",
                                                     !.trackNames = trackNames,
                                                     !.folderName = folderName,
                                                     !.accessToken = accessToken,
                                                     !.alert = AlertMessage]]
            /\ UNCHANGED logs
       ELSE /\ logs' = Append(logs, ProcessingEntry)
            /\ runs' = [runs EXCEPT ![r] =
                   Send(Emit([@ EXCEPT !.trackNames = trackNames,
                                       !.folderName = folderName,
                                       !.accessToken = accessToken],
                             <<ProcessingEntry>>),
                        "getUserProfile", ProfileRequest(accessToken))]
    /\ UNCHANGED <<accessToken, trackNames, folderName, playlistUrl, playlists>>
    /\ UNCHANGED <<parserVars, authVars>>

\* Lines 190-191: the profile request settles; the create request follows.
ProfileSettled(r, res) ==
    /\ runs[r].pc = "getUserProfile"
    /\ res \in ProfileResponses
    /\ LET run == Receive(runs[r], res)
           me == spotifyFetch(res)
       IN  IF me.threw
           THEN Failed(r, run, me.message)
           ELSE /\ runs' = [runs EXCEPT ![r] =
                       Send([run EXCEPT !.me = me.value], "createPlaylist",
                            CreateRequest(me.value.id, run.folderName,
                                          run.accessToken))]
                /\ UNCHANGED logs
    /\ UNCHANGED <<accessToken, trackNames, folderName, playlistUrl, playlists>>
    /\ UNCHANGED <<parserVars, authVars>>

\* The remote creates the playlist of a create request it serves.
NewPlaylist(id, req) == [id |-> id, name |-> req.body.name, tracks |-> <<>>]

\* Lines 191-201: the create request settles; the first search follows.
CreateSettled(r, res) ==
    /\ runs[r].pc = "createPlaylist"
    /\ res \in CreateResponses(PlaylistId(Len(playlists) + 1))
    /\ playlists' = IF Served(res)
                    THEN Append(playlists,
                                NewPlaylist(PlaylistId(Len(playlists) + 1),
                                            runs[r].request))
                    ELSE playlists
    /\ LET run == Receive(runs[r], res)
           playlist == spotifyFetch(res)
       IN  IF playlist.threw
           THEN /\ Failed(r, run, playlist.message)
                /\ UNCHANGED playlistUrl
           ELSE LET url == playlist.value.external_urls.spotify
                    entry == CreatedEntry(url)
                    started == [Emit(run, <<entry>>) EXCEPT
                                   !.playlist = playlist.value,
                                   !.uris = <<>>, !.k = 1]
                IN  /\ playlistUrl' = url
                    /\ logs' = Append(logs, entry)
                    /\ runs' = [runs EXCEPT ![r] =
                           Send(started, "searchTrack",
                                SearchRequest(run.trackNames[1], run.accessToken))]
    /\ UNCHANGED <<accessToken, trackNames, folderName>>
    /\ UNCHANGED <<parserVars, authVars>>

\* The entry of lines 202-213 for the search of name that gave result.
SearchEntry(name, result) ==
    IF result.threw THEN SearchErrorEntry(name, result.message)
    ELSE IF FirstUri(result.value) # NoUri THEN FoundEntry(name)
    ELSE NotFoundEntry(name)

\* A push without the test of line 202: the null of a search without a match
\* is recorded too.
PushMatchUnchecked(uris, result) ==
    IF ~result.threw THEN Append(uris, FirstUri(result.value)) ELSE uris

\* A match list kept outside the handler, one for all its calls: the list a
\* call pushes to is the longest any call holds.
PushMatchShared(uris, result) ==
    LET lists == {runs[r].uris : r \in DOMAIN runs}
        shared == CHOOSE l \in lists : \A m \in lists : Len(m) <= Len(l)
    IN  IF ~result.threw /\ FirstUri(result.value) # NoUri
        THEN Append(shared, FirstUri(result.value))
        ELSE uris

\* uris after lines 202-203.
PushMatch(uris, result) ==
    IF ~result.threw /\ FirstUri(result.value) # NoUri
    THEN Append(uris, FirstUri(result.value))
    ELSE uris

\* A handler that calls addTracks whatever was found.
HasMatchesUntested(uris) == TRUE

\* uris.length > 0, line 216
HasMatches(uris) == Len(uris) > 0

\* A loop step one short: each chunk starts on the last reference of the one before.
NextChunkStartOverlapping(i) == i + ChunkSize - 1

\* The loop step of line 125.
NextChunkStart(i) == i + ChunkSize

\* addTracks from position i, lines 125-132, and line 218 after it: the run
\* sends the chunk at i and suspends, or the loop is over and addTracks returns.
AddTracksFrom(run, i) ==
    IF i < Len(run.uris)
    THEN Send([run EXCEPT !.i = i], "addTracks",
              AddTracksRequest(run.playlist.id,
                               Slice(run.uris, i, i + ChunkSize),
                               run.accessToken))
    ELSE Finish(Emit([run EXCEPT !.i = i], <<AddedEntry(Len(run.uris))>>), "done")

\* What a step of the run added to its entries.
NewEntries(before, after) ==
    SubSeq(after.emitted, Len(before.emitted) + 1, Len(after.emitted))

\* Lines 199-219: a search settles; the next search, the first chunk of
\* addTracks or the end of the run follows.
SearchSettled(r, res) ==
    /\ runs[r].pc = "searchTrack"
    /\ res \in SearchResponses(runs[r].request.url)
    /\ LET run == Receive(runs[r], res)
           name == run.trackNames[run.k]
           result == spotifyFetch(res)
           entry == SearchEntry(name, result)
           uris == PushMatch(run.uris, result)
           searched == [Emit(run, <<entry>>) EXCEPT !.uris = uris]
       IN  IF run.k < Len(run.trackNames)
           THEN /\ logs' = Append(logs, entry)
                /\ runs' = [runs EXCEPT ![r] =
                       Send([searched EXCEPT !.k = run.k + 1], "searchTrack",
                            SearchRequest(run.trackNames[run.k + 1],
                                          run.accessToken))]
           ELSE IF HasMatches(uris)
           THEN /\ logs' = logs \o NewEntries(run, AddTracksFrom(searched, 0))
                /\ runs' = [runs EXCEPT ![r] = AddTracksFrom(searched, 0)]
           ELSE /\ logs' = logs \o <<entry, NoTracksEntry>>
                /\ runs' = [runs EXCEPT ![r] =
                       Finish(Emit(searched, <<NoTracksEntry>>), "done")]
    /\ UNCHANGED <<accessToken, trackNames, folderName, playlistUrl, playlists>>
    /\ UNCHANGED <<parserVars, authVars>>

\* The remote appends the uris of a request it serves to the playlist of the URL.
AddToPlaylist(all, req) ==
    [n \in DOMAIN all |->
        IF TracksUrl(all[n].id) = req.url
        THEN [all[n] EXCEPT !.tracks = @ \o req.body.uris]
        ELSE all[n]]

\* A loop that swallows the error of a chunk and goes on to the next.
ChunkSettledSwallowing(r, run, result) ==
    LET next == AddTracksFrom(run, NextChunkStart(run.i))
    IN  /\ logs' = logs \o NewEntries(run, next)
        /\ runs' = [runs EXCEPT ![r] = next]

\* The await of line 127 inside the loop of addTracks, which has no try of
\* its own: an error leaves the loop for the catch of handleCreatePlaylist.
ChunkSettled(r, run, result) ==
    LET next == AddTracksFrom(run, NextChunkStart(run.i))
    IN  IF result.threw
        THEN Failed(r, run, result.message)
        ELSE /\ logs' = logs \o NewEntries(run, next)
             /\ runs' = [runs EXCEPT ![r] = next]

\* Lines 125-132 and 217-218: a chunk request settles; the next chunk or
\* the end of the run follows.
AddTracksSettled(r, res) ==
    /\ runs[r].pc = "addTracks"
    /\ res \in AddTracksResponses
    /\ playlists' = IF Served(res)
                    THEN AddToPlaylist(playlists, runs[r].request)
                    ELSE playlists
    /\ ChunkSettled(r, Receive(runs[r], res), spotifyFetch(res))
    /\ UNCHANGED <<accessToken, trackNames, folderName, playlistUrl>>
    /\ UNCHANGED <<parserVars, authVars>>

(***************************************************************************)
(* handleFolderPick, lines 176-183.                                        *)
(***************************************************************************)
\* files[0].webkitRelativePath.split("/")[0]
FirstPathSegment(path) ==
    LET slashes == {j \in 1..Len(path) : Char(path, j) = "/"}
    IN  IF slashes = {} THEN path ELSE SubSeq(path, 1, Min(slashes) - 1)

\* A map that hands the names back last file first.
ParsedNamesReversed(files) ==
    [j \in 1..Len(files) |-> TrackNameOf[files[Len(files) - j + 1].name]]

\* files.map((f) => parseTrackName(f.name))
ParsedNames(files) == [j \in 1..Len(files) |-> TrackNameOf[files[j].name]]

\* The entries of line 182; folderName is the one of the current render.
PickEntries(folder, names) == <<FolderEntry(folder), TracksEntry>> \o names

HandleFolderPick(files) ==
    /\ ~Falsy(accessToken)
    /\ trackNames' = ParsedNames(files)
    /\ folderName' = IF Len(files) > 0
                     THEN FirstPathSegment(files[1].webkitRelativePath)
                     ELSE folderName
    /\ logs' = PickEntries(folderName, ParsedNames(files))
    /\ UNCHANGED <<accessToken, playlistUrl, runs, playlists>>
    /\ UNCHANGED <<parserVars, authVars>>

\* The File objects of a folder holding the files named.
FilesOf(folder, names) ==
    [j \in 1..Len(names) |->
        [name |-> names[j], webkitRelativePath |-> folder \o "/" \o names[j]]]

\* The folders on the disk and the names of their files, in the order the
\* picker lists them: a pick hands over the first n files of a folder.
Folders == {"MyFolder", "Mix"}

Listing(folder, j) ==
    IF folder = "MyFolder"
    THEN (IF j % 2 = 1 THEN FileNameA ELSE FileNameB)
    ELSE IF folder = "Mix"
    THEN (IF j % 3 = 0 THEN FileNameA ELSE FileNameB)
    ELSE AlbumFileName(j)

FolderFiles(folder, n) == FilesOf(folder, [j \in 1..n |-> Listing(folder, j)])

Picks == {FolderFiles(f, n) : f \in Folders, n \in 0..MaxFiles}

(***************************************************************************)
(* Login, lines 3-51 and 143-160.  The page is the application or, after   *)
(* login has navigated away, the authorization endpoint; the endpoint      *)
(* redirects back to the application, which then mounts anew.              *)
(***************************************************************************)
CLIENT_ID == "client-id"

REDIRECT_URI == "https://app.example/callback"

BACKEND_URL == "https://spotifyplaylister.onrender.com/"

SCOPES == "playlist-modify-public playlist-modify-private"

\* The n-th draw of generateCodeVerifier, lines 12-19: random, hence new.
generateCodeVerifier(n) == "verifier" \o ToString(n)

\* A stand-in for the text of the link, which carries the verifier itself.
generateCodeChallengePlain(codeVerifier) == codeVerifier

\* generateCodeChallenge, lines 21-30: the encoded SHA-256 digest, a value
\* that determines nothing of the verifier but which draw it was.
generateCodeChallenge(codeVerifier) ==
    "challenge" \o SubSeq(codeVerifier, Len("verifier") + 1, Len(codeVerifier))

AuthorizeEndpoint == "https://accounts.spotify.com/authorize"

\* authUrl, lines 37-43
AuthUrl(codeChallenge) ==
    [endpoint |-> AuthorizeEndpoint,
     client_id |-> CLIENT_ID,
     response_type |-> "code",
     redirect_uri |-> REDIRECT_URI,
     scope |-> SCOPES,
     code_challenge_method |-> "S256",
     code_challenge |-> codeChallenge]

\* The argument of fetch, lines 149-153.
ExchangeRequest(code, codeVerifier) ==
    [url |-> BACKEND_URL \o "/api/exchange_token",
     method |-> "POST",
     headers |-> [ContentType |-> "application/json"],
     body |-> [code |-> code, code_verifier |-> codeVerifier]]

\* localStorage.getItem gives null when the item is absent.
NoItem == ""

\* params.get("code") gives null when the URL has no code.
NoCode == ""

\* getAuthCode, lines 48-51
getAuthCode == location.code

Token == "token"

\* What the backend may answer: the token; a refusal with a JSON body that
\* has no access_token; an error page that is no JSON; or no answer at all.
ExchangeResponses ==
    {HttpResponse(200, "", [access_token |-> Token, error |-> ""]),
     HttpResponse(400, "", [access_token |-> Undefined, error |-> "invalid_grant"]),
     HttpResponse(502, "Bad Gateway", NoJson),
     NetworkError}

\* Whether the chain of lines 154-158 reaches its second then: fetch has
\* resolved and res.json() has parsed the body.  res.ok is not looked at.
BodyParsed(res) == res.kind = "response" /\ res.json # NoJson

LoginIdle == [pc |-> "idle", codeVerifier |-> NoItem, draws |-> 0]

EffectIdle == [due |-> FALSE, inflight |-> <<>>]

\* The effect is due after the mount and after a render that changed
\* accessToken, line 160.
EffectDue == [due |-> TRUE, inflight |-> <<>>]

Authorize(message) == [to |-> "authorize", message |-> message]

Exchange(message) == [to |-> "exchange", message |-> message]

Remove(seq, i) == SubSeq(seq, 1, i - 1) \o SubSeq(seq, i + 1, Len(seq))

\* The application mounts with code in the URL: the state of lines 137-141
\* is the initial one, no handler call of the page before is left, and the
\* effect is due.
Mount(code) ==
    /\ location' = [page |-> "app", code |-> code]
    /\ accessToken' = ""
    /\ trackNames' = <<>>
    /\ folderName' = ""
    /\ logs' = <<>>
    /\ playlistUrl' = ""
    /\ runs' = [r \in DOMAIN runs |-> IdleRun]
    /\ login' = [LoginIdle EXCEPT !.draws = login.draws]
    /\ effect' = EffectDue

\* Lines 33-34: the button of the login screen is clicked; the verifier is
\* drawn and stored, and login awaits the digest.  A click is handled after
\* the effects of the render it follows.
Login ==
    /\ location.page = "app"
    /\ ~effect.due
    /\ Falsy(accessToken)
    /\ login.pc = "idle"
    /\ login.draws < MaxLogins
    /\ LET codeVerifier == generateCodeVerifier(login.draws + 1)
       IN  /\ storage' = codeVerifier
           /\ login' = [pc |-> "digest", codeVerifier |-> codeVerifier,
                        draws |-> login.draws + 1]
    /\ UNCHANGED <<pipelineVars, parserVars, location, effect, network>>

\* Lines 35-45: the digest is there; the browser leaves for the
\* authorization endpoint, and the fetches of the page are abandoned.
LoginRedirect ==
    /\ location.page = "app"
    /\ login.pc = "digest"
    /\ network' = Append(network,
                         Authorize(AuthUrl(generateCodeChallenge(login.codeVerifier))))
    /\ location' = [page |-> "authorize", code |-> NoCode]
    /\ login' = [login EXCEPT !.pc = "idle", !.codeVerifier = NoItem]
    /\ effect' = EffectIdle
    /\ UNCHANGED <<pipelineVars, parserVars, storage>>

\* The code the endpoint issues for the n-th authorization.
Code(n) == "code" \o ToString(n)

AuthorizationsOf(messages) == SelectSeq(messages, LAMBDA m : m.to = "authorize")

\* The authorization endpoint redirects back, with a code or, when the user
\* refused, without one.
Redirected(granted) ==
    /\ location.page = "authorize"
    /\ Mount(IF granted THEN Code(Len(AuthorizationsOf(network))) ELSE NoCode)
    /\ UNCHANGED <<playlists, parserVars, storage, network>>

\* The page is loaded again at the URL it shows.
Reload ==
    /\ location.page = "app"
    /\ Len(network) < MaxMessages
    /\ Mount(location.code)
    /\ UNCHANGED <<playlists, parserVars, storage, network>>

\* The effect, lines 144-153, up to the call of fetch.
RunEffect ==
    /\ location.page = "app"
    /\ effect.due
    /\ LET code == getAuthCode
           codeVerifier == storage
       IN  IF ~Falsy(code) /\ Falsy(accessToken) /\ ~Falsy(codeVerifier)
           THEN /\ effect' = [due |-> FALSE,
                              inflight |-> Append(effect.inflight,
                                                  ExchangeRequest(code, codeVerifier))]
                /\ network' = Append(network,
                                     Exchange(ExchangeRequest(code, codeVerifier)))
           ELSE /\ effect' = [effect EXCEPT !.due = FALSE]
                /\ UNCHANGED network
    /\ UNCHANGED <<pipelineVars, parserVars, location, storage, login>>

\* A callback that leaves the URL as it is.
replaceStateSkipped(loc) == loc

\* window.history.replaceState({}, document.title, "/"), line 157
replaceState(loc) == [loc EXCEPT !.code = NoCode]

\* Lines 154-158: the i-th fetch in flight settles with res.  A rejection of
\* fetch or of res.json() is handled nowhere; a parsed body has its
\* access_token stored and the URL replaced by "/".
ExchangeSettled(i, res) ==
    /\ location.page = "app"
    /\ i \in DOMAIN effect.inflight
    /\ res \in ExchangeResponses
    /\ IF BodyParsed(res)
       THEN /\ accessToken' = res.json.access_token
            /\ location' = replaceState(location)
            /\ effect' = [due |-> effect.due \/ res.json.access_token # accessToken,
                          inflight |-> Remove(effect.inflight, i)]
       ELSE /\ effect' = [effect EXCEPT !.inflight = Remove(@, i)]
            /\ UNCHANGED <<accessToken, location>>
    /\ UNCHANGED <<trackNames, folderName, logs, playlistUrl, runs, playlists>>
    /\ UNCHANGED <<parserVars, storage, login, network>>

\* The state of login once the first exchange has given the token: the
\* verifier is still stored, the URL has no code.
LoggedIn ==
    /\ location = [page |-> "app", code |-> NoCode]
    /\ storage = generateCodeVerifier(1)
    /\ login = [LoginIdle EXCEPT !.draws = 1]
    /\ effect = EffectIdle
    /\ network = <<Authorize(AuthUrl(generateCodeChallenge(generateCodeVerifier(1)))),
                   Exchange(ExchangeRequest(Code(1), generateCodeVerifier(1)))>>

(***************************************************************************)
(* The application after login: the main screen, nothing picked yet.       *)
(***************************************************************************)
NotCalled == [called |-> FALSE]

Returned(v) == [called |-> TRUE, value |-> v]

ParserIdle ==
    /\ arg = ""
    /\ ret = NotCalled

Init ==
    /\ accessToken = Token
    /\ trackNames = <<>>
    /\ folderName = ""
    /\ logs = <<>>
    /\ playlistUrl = ""
    /\ runs = [r \in {1} |-> IdleRun]
    /\ playlists = <<>>
    /\ ParserIdle
    /\ LoggedIn

Next ==
    \/ \E files \in Picks : HandleFolderPick(files)
    \/ \E r \in DOMAIN runs : HandleCreatePlaylist(r)
    \/ \E r \in DOMAIN runs : \E res \in ProfileResponses : ProfileSettled(r, res)
    \/ \E r \in DOMAIN runs :
          \E res \in CreateResponses(PlaylistId(Len(playlists) + 1)) :
              CreateSettled(r, res)
    \/ \E r \in DOMAIN runs :
          \E res \in SearchResponses(runs[r].request.url) : SearchSettled(r, res)
    \/ \E r \in DOMAIN runs : \E res \in AddTracksResponses : AddTracksSettled(r, res)

Spec == Init /\ [][Next]_vars

\* The request run r awaits is answered.
Settled(r) ==
    /\ runs[r].request # NoRequest
    /\ \/ \E res \in ProfileResponses : ProfileSettled(r, res)
       \/ \E res \in CreateResponses(PlaylistId(Len(playlists) + 1)) :
              CreateSettled(r, res)
       \/ \E res \in SearchResponses(runs[r].request.url) : SearchSettled(r, res)
       \/ \E res \in AddTracksResponses : AddTracksSettled(r, res)

RunSlots == {1}

\* The same application, where every request is answered in the end.
SpecLive == Init /\ [][Next]_vars /\ \A r \in RunSlots : WF_vars(Settled(r))

(***************************************************************************)
(* Two calls of handleCreatePlaylist: the button has no guard against a    *)
(* click while a call is suspended.  The folders picked have no name in    *)
(* common; every request is answered, a search with a track, with none or  *)
(* with a failed fetch.                                                    *)
(***************************************************************************)
OverlapPicks == {FolderFiles("MyFolder", 2), FolderFiles("Album", 1)}

Answered(responses) == {res \in responses : Served(res)}

InitOverlap ==
    /\ accessToken = Token
    /\ trackNames = <<>>
    /\ folderName = ""
    /\ logs = <<>>
    /\ playlistUrl = ""
    /\ runs = [r \in {1, 2} |-> IdleRun]
    /\ playlists = <<>>
    /\ ParserIdle
    /\ LoggedIn

NextOverlap ==
    \/ \E files \in OverlapPicks : HandleFolderPick(files)
    \/ \E r \in DOMAIN runs : HandleCreatePlaylist(r)
    \/ \E r \in DOMAIN runs : \E res \in Answered(ProfileResponses) :
          ProfileSettled(r, res)
    \/ \E r \in DOMAIN runs :
          \E res \in Answered(CreateResponses(PlaylistId(Len(playlists) + 1))) :
              CreateSettled(r, res)
    \/ \E r \in DOMAIN runs :
          \E res \in Answered(SearchResponses(runs[r].request.url)) \cup {NetworkError} :
              SearchSettled(r, res)
    \/ \E r \in DOMAIN runs : \E res \in Answered(AddTracksResponses) :
          AddTracksSettled(r, res)

SpecOverlap == InitOverlap /\ [][NextOverlap]_vars

(***************************************************************************)
(* A run over the folder Album, from the await of its last search: the     *)
(* first pick of the session was Album with n files, the profile and the   *)
(* playlist requests were served, and every earlier search found its       *)
(* track.  From there the last search settles and addTracks runs.          *)
(***************************************************************************)
AlbumTrackNames == ParsedNames(FolderFiles("Album", MaxTracks))

AlbumUris == [j \in 1..MaxTracks |-> TrackUri(SearchUrl(AlbumTrackNames[j]))]

FoundResponse(uri) == HttpResponse(200, "", SearchBody(<<[uri |-> uri]>>))

AlbumRun(n) ==
    LET names == SubSeq(AlbumTrackNames, 1, n)
        created == CreatedBody(PlaylistId(1))
    IN  [pc |-> "searchTrack",
         trackNames |-> names,
         folderName |-> "Album",
         accessToken |-> Token,
         me |-> [id |-> UserId],
         playlist |-> created,
         k |-> n,
         uris |-> SubSeq(AlbumUris, 1, n - 1),
         i |-> 0,
         request |-> SearchRequest(names[n], Token),
         sent |-> <<ProfileRequest(Token), CreateRequest(UserId, "Album", Token)>>
                     \o [j \in 1..n |-> SearchRequest(names[j], Token)],
         received |-> <<HttpResponse(200, "", [id |-> UserId]),
                        HttpResponse(201, "", created)>>
                         \o [j \in 1..(n - 1) |-> FoundResponse(AlbumUris[j])],
         emitted |-> <<ProcessingEntry, CreatedEntry(created.external_urls.spotify)>>
                        \o [j \in 1..(n - 1) |-> FoundEntry(names[j])],
         alert |-> ""]

InitAlbum ==
    \E n \in 1..MaxTracks :
        /\ accessToken = Token
        /\ trackNames = SubSeq(AlbumTrackNames, 1, n)
        /\ folderName = "Album"
        /\ logs = PickEntries("", SubSeq(AlbumTrackNames, 1, n)) \o AlbumRun(n).emitted
        /\ playlistUrl = PlaylistUrl(PlaylistId(1))
        /\ runs = [r \in {1} |-> AlbumRun(n)]
        /\ playlists = <<[id |-> PlaylistId(1), name |-> "Album", tracks |-> <<>>]>>
        /\ ParserIdle
        /\ LoggedIn

NextAlbum ==
    \/ \E r \in DOMAIN runs :
          \E res \in SearchResponses(runs[r].request.url) : SearchSettled(r, res)
    \/ \E r \in DOMAIN runs : \E res \in AddTracksResponses : AddTracksSettled(r, res)

SpecAlbum == InitAlbum /\ [][NextAlbum]_vars

(***************************************************************************)
(* parseTrackName called on its own.                                       *)
(***************************************************************************)
InitNormalizer ==
    /\ arg \in NormalizerInputs
    /\ ret = NotCalled
    /\ accessToken = Token
    /\ trackNames = <<>>
    /\ folderName = ""
    /\ logs = <<>>
    /\ playlistUrl = ""
    /\ runs = [r \in {1} |-> IdleRun]
    /\ playlists = <<>>
    /\ LoggedIn

\* One call parseTrackName(arg).
CallParseTrackName ==
    /\ ret = NotCalled
    /\ ret' = Returned(parseTrackName(arg))
    /\ UNCHANGED arg
    /\ UNCHANGED <<pipelineVars, authVars>>

NextNormalizer == CallParseTrackName

SpecNormalizer == InitNormalizer /\ [][NextNormalizer]_vars

(***************************************************************************)
(* Login on its own: the application is opened, at its plain URL or at one *)
(* that still carries a code of an earlier visit.                          *)
(***************************************************************************)
StaleCode == "code0"

InitAuth ==
    /\ location \in {[page |-> "app", code |-> c] : c \in {NoCode, StaleCode}}
    /\ storage = NoItem
    /\ login = LoginIdle
    /\ effect = EffectDue
    /\ network = <<>>
    /\ accessToken = ""
    /\ trackNames = <<>>
    /\ folderName = ""
    /\ logs = <<>>
    /\ playlistUrl = ""
    /\ runs = [r \in {1} |-> IdleRun]
    /\ playlists = <<>>
    /\ ParserIdle

NextAuth ==
    \/ Login
    \/ LoginRedirect
    \/ \E granted \in BOOLEAN : Redirected(granted)
    \/ Reload
    \/ RunEffect
    \/ \E i \in DOMAIN effect.inflight : \E res \in ExchangeResponses :
          ExchangeSettled(i, res)

SpecAuth == InitAuth /\ [][NextAuth]_vars

(***************************************************************************)
(* spotifyFetch called on its own, with the headers a caller may pass in   *)
(* options.                                                                *)
(***************************************************************************)
CallerHeaders ==
    {NoHeaders,
     [Accept |-> "application/json"],
     [ContentType |-> "text/plain"],
     [Authorization |-> "Bearer other"],
     [Authorization |-> "Basic abc", Accept |-> "application/json"]}

FetchCalls ==
    {[url |-> url, method |-> method, body |-> "", headers |-> headers, token |-> token] :
        url \in {"https://api.spotify.com/v1/me", SearchUrl("a"), TracksUrl("pl1")},
        method \in {"GET", "POST"},
        headers \in CallerHeaders,
        token \in {Token, "token2"}}

InitFetch ==
    /\ arg \in FetchCalls
    /\ ret = NotCalled
    /\ accessToken = Token
    /\ trackNames = <<>>
    /\ folderName = ""
    /\ logs = <<>>
    /\ playlistUrl = ""
    /\ runs = [r \in {1} |-> IdleRun]
    /\ playlists = <<>>
    /\ LoggedIn

\* One call spotifyFetch(url, options, accessToken), up to the call of fetch:
\* ret is the argument fetch gets.
CallSpotifyFetch ==
    /\ ret = NotCalled
    /\ ret' = Returned(FetchRequest(arg.url, arg.method, arg.body, arg.headers,
                                    arg.token))
    /\ UNCHANGED arg
    /\ UNCHANGED <<pipelineVars, authVars>>

NextFetch == CallSpotifyFetch

SpecFetch == InitFetch /\ [][NextFetch]_vars

(***************************************************************************)
(* What a run did, read from its record.                                   *)
(***************************************************************************)
Range(seq) == {seq[j] : j \in 1..Len(seq)}

Last(seq) == seq[Len(seq)]

IsPrefix(a, b) == Len(a) <= Len(b) /\ SubSeq(b, 1, Len(a)) = a

EndsWith(str, suffix) ==
    Len(suffix) <= Len(str)
        /\ SubSeq(str, Len(str) - Len(suffix) + 1, Len(str)) = suffix

IsCreateRequest(req) == req.method = "POST" /\ EndsWith(req.url, "/playlists")

IsSearchRequest(req) == IsPrefix("https://api.spotify.com/v1/search?", req.url)

IsAddTracksRequest(req) == req.method = "POST" /\ EndsWith(req.url, "/tracks")

RECURSIVE Concat(_)
Concat(seqs) == IF Len(seqs) = 0 THEN <<>> ELSE Head(seqs) \o Concat(Tail(seqs))

\* The write calls of a run, and the references each carried.
WriteRequests(run) == SelectSeq(run.sent, IsAddTracksRequest)

Chunks(run) ==
    [j \in 1..Len(WriteRequests(run)) |-> WriteRequests(run)[j].body.uris]

CeilDiv(n, d) == (n + d - 1) \div d

\* The playlists of the remote that the run's create request made.
PlaylistsOf(run) ==
    {n \in DOMAIN playlists :
        run.playlist # NoJson /\ playlists[n].id = run.playlist.id}

IsFailedEntry(e) == IsPrefix("Failed: ", e)

\* The run got its profile (its playlist): the first (second) request was served.
ProfileFailed(run) == Len(run.received) >= 1 /\ ~Served(run.received[1])

CreateFailed(run) == Len(run.received) >= 2 /\ ~Served(run.received[2])

PassedCreation(run) == Len(run.received) >= 2 /\ Served(run.received[2])

\* The searches of the run that have settled, and the response of search j.
SearchesSettled(run) ==
    IF Len(run.received) - 2 < Len(run.trackNames)
    THEN Len(run.received) - 2
    ELSE Len(run.trackNames)

SearchResponse(run, j) == run.received[2 + j]

Matched(res) == Served(res) /\ Len(res.json.tracks.items) > 0

\* The references of the searches that matched, in the order of the searches.
RECURSIVE MatchesUpTo(_, _)
MatchesUpTo(run, j) ==
    IF j = 0 THEN <<>>
    ELSE IF Matched(SearchResponse(run, j))
    THEN Append(MatchesUpTo(run, j - 1), SearchResponse(run, j).json.tracks.items[1].uri)
    ELSE MatchesUpTo(run, j - 1)

MatchedUris(run) == MatchesUpTo(run, SearchesSettled(run))

(***************************************************************************)
(* C1.  Rate-limit law.                                                    *)
(***************************************************************************)
RateLimited(res) == res.kind = "response" /\ res.status = 429

\* C1: a request answered 429 is retried, and the 429 is never surfaced to the
\* caller: no run fails on a 429 response and no search of a run reports one.
RateLimitNeverSurfaced ==
    \A r \in DOMAIN runs :
        \A j \in 1..Len(runs[r].received) :
            RateLimited(runs[r].received[j]) =>
                /\ ~(runs[r].pc = "failed" /\ j = Len(runs[r].received))
                /\ \A e \in Range(runs[r].emitted) :
                       ~IsPrefix("Error searching", e)
                           \/ ~EndsWith(e, "(429): rate limited")

(***************************************************************************)
(* C2.  Chunking law, on the run over the folder Album.                    *)
(***************************************************************************)
\* C2: addTracks issues its write calls one after the other, each carrying at
\* most 100 references; the chunks written so far are, in call order, a prefix
\* of the matched references; and when addTracks has returned there were
\* exactly ceil(N/100) calls whose chunks concatenate to the N references.
ChunkingLaw ==
    \A r \in DOMAIN runs :
        LET run == runs[r]
            chunks == Chunks(run)
            n == Len(run.uris)
        IN  /\ \A j \in 1..Len(chunks) : Len(chunks[j]) \in 1..100
            /\ IsPrefix(Concat(chunks), run.uris)
            /\ Len(chunks) <= CeilDiv(n, 100)
            /\ Len(run.sent) <= Len(run.received) + 1
            /\ run.pc = "done" =>
                   /\ Len(chunks) = CeilDiv(n, 100)
                   /\ Concat(chunks) = run.uris
                   /\ \A p \in PlaylistsOf(run) : playlists[p].tracks = run.uris

\* A run over 201 references has returned from addTracks after three calls.
ChunkingWitness ==
    \E r \in DOMAIN runs :
        /\ runs[r].pc = "done"
        /\ Len(runs[r].uris) = 201
        /\ Len(Chunks(runs[r])) = 3
        /\ Len(Chunks(runs[r])[3]) = 1

(***************************************************************************)
(* C3.  Abort law.                                                         *)
(***************************************************************************)
\* C3: when the profile request of a run fails, the run makes no create,
\* search or append call; when its create request fails, it makes no search
\* and no append call; in both cases it ends with a failure entry.
AbortLaw ==
    \A r \in DOMAIN runs :
        LET run == runs[r]
        IN  /\ ProfileFailed(run) =>
                   /\ Len(run.sent) = 1
                   /\ PlaylistsOf(run) = {}
                   /\ run.pc = "failed"
                   /\ IsFailedEntry(Last(run.emitted))
            /\ CreateFailed(run) =>
                   /\ Len(run.sent) = 2
                   /\ \A q \in Range(run.sent) :
                          ~IsSearchRequest(q) /\ ~IsAddTracksRequest(q)
                   /\ PlaylistsOf(run) = {}
                   /\ run.pc = "failed"
                   /\ IsFailedEntry(Last(run.emitted))

\* The create request of a run over two names has failed.
AbortWitness ==
    \E r \in DOMAIN runs :
        /\ CreateFailed(runs[r])
        /\ Len(runs[r].trackNames) = 2
        /\ runs[r].pc = "failed"

(***************************************************************************)
(* C4.  Isolation law.                                                     *)
(***************************************************************************)
\* The entry a settled search must have produced: one of the three kinds.
EntryKind(e) ==
    IF IsPrefix("Found: ", e) THEN "found"
    ELSE IF IsPrefix("Not found: ", e) THEN "not found"
    ELSE IF IsPrefix("Error searching \"", e) THEN "search error"
    ELSE "other"

OutcomeKind(res) ==
    IF ~Served(res) THEN "search error"
    ELSE IF Matched(res) THEN "found"
    ELSE "not found"

SearchingIsOver(run) == run.pc \in {"addTracks", "done", "failed"}

\* C4: in a run that has passed collection creation a failing search does not
\* abort the run: once the run is past its loop every item was searched; each
\* settled search produced exactly one entry, of the kind of its outcome; and
\* the references collected, and handed to addTracks, are all and only those
\* of the searches that matched.
IsolationLaw ==
    \A r \in DOMAIN runs :
        LET run == runs[r]
            done == SearchesSettled(run)
        IN  PassedCreation(run) =>
                /\ SearchingIsOver(run) => done = Len(run.trackNames)
                /\ Len(SelectSeq(run.sent, IsSearchRequest))
                       = (IF SearchingIsOver(run) THEN done ELSE done + 1)
                /\ Len(run.emitted) >= 2 + done
                /\ \A j \in 1..done :
                       EntryKind(run.emitted[2 + j]) = OutcomeKind(SearchResponse(run, j))
                /\ Len(run.emitted) <= 2 + done + 1
                /\ Len(run.emitted) = 2 + done + 1 =>
                       EntryKind(Last(run.emitted)) = "other"
                /\ run.uris = MatchedUris(run)
                /\ \A j \in 1..Len(Chunks(run)) : Chunks(run)[j] = MatchedUris(run)

\* One of two searches failed, the other matched, and its reference was added.
IsolationWitness ==
    \E r \in DOMAIN runs :
        /\ runs[r].pc = "done"
        /\ Len(runs[r].trackNames) = 2
        /\ ~Served(SearchResponse(runs[r], 1))
        /\ Matched(SearchResponse(runs[r], 2))
        /\ Len(runs[r].uris) = 1
        /\ \E p \in PlaylistsOf(runs[r]) : playlists[p].tracks = runs[r].uris

(***************************************************************************)
(* C5.  Input-order law.                                                   *)
(***************************************************************************)
\* The names of a pick, file by file.
InOrderNames(files) == [j \in 1..Len(files) |-> parseTrackName(files[j].name)]

ErrorMessages == {"Failed to fetch", "Spotify API error (429): rate limited",
                  "Spotify API error (500): server error"}

ItemEntries(name) ==
    {"Found: " \o name, "Not found: " \o name}
        \cup {"Error searching \"" \o name \o "\": " \o m : m \in ErrorMessages}

\* C5: the names of a run are those of the files picked, in the order of the
\* files; its searches, its per-item entries and the references written to its
\* playlist follow that order, and nothing is deduplicated.
InputOrderLaw ==
    /\ \E p \in Picks : trackNames = InOrderNames(p)
    /\ \A r \in DOMAIN runs :
           LET run == runs[r]
               searches == SelectSeq(run.sent, IsSearchRequest)
           IN  run.pc # "idle" =>
                   /\ \E p \in Picks : run.trackNames = InOrderNames(p)
                   /\ \A j \in 1..Len(searches) :
                          QueryOf(searches[j].url)
                              = encodeURIComponent(run.trackNames[j])
                   /\ PassedCreation(run) =>
                          \A j \in 1..SearchesSettled(run) :
                              run.emitted[2 + j] \in ItemEntries(run.trackNames[j])
                   /\ \A p \in PlaylistsOf(run) :
                          /\ IsPrefix(playlists[p].tracks, MatchedUris(run))
                          /\ run.pc = "done" => playlists[p].tracks = MatchedUris(run)

\* A name that occurs twice was searched twice and written twice.
InputOrderWitness ==
    \E r \in DOMAIN runs :
        /\ runs[r].pc = "done"
        /\ Len(runs[r].trackNames) = 2
        /\ runs[r].trackNames[1] = runs[r].trackNames[2]
        /\ Len(SelectSeq(runs[r].sent, IsSearchRequest)) = 2
        /\ \E p \in PlaylistsOf(runs[r]) :
               /\ Len(playlists[p].tracks) = 2
               /\ playlists[p].tracks[1] = playlists[p].tracks[2]

(***************************************************************************)
(* C6.  Empty-input law.                                                   *)
(***************************************************************************)
\* C6: a call of handleCreatePlaylist with no names ends at once with the
\* alert, and makes no request and no log entry; only such a call does.
EmptyInputLaw ==
    \A r \in DOMAIN runs :
        LET run == runs[r]
        IN  run.pc # "idle" =>
                /\ (Len(run.trackNames) = 0) <=> (run.pc = "alerted")
                /\ Len(run.trackNames) = 0 =>
                       /\ run.alert = "Please select a folder first!"
                       /\ run.sent = <<>>
                       /\ run.received = <<>>
                       /\ run.request = NoRequest
                       /\ run.emitted = <<>>
                       /\ PlaylistsOf(run) = {}

\* The button was clicked after an empty folder was picked.
EmptyInputWitness ==
    \E r \in DOMAIN runs :
        /\ runs[r].pc = "alerted"
        /\ logs = <<"Folder: ", "Tracks:">>

(***************************************************************************)
(* C7.  Zero-match outcome.                                                *)
(***************************************************************************)
AllSearched(run) ==
    PassedCreation(run) /\ Len(run.received) >= 2 + Len(run.trackNames)

\* C7: when a run has its playlist and none of its searches matched, it makes
\* no write call, ends with the entry "No tracks found." and without a
\* failure entry, and its empty playlist and the link to it stay.
ZeroMatchOutcome ==
    \A r \in DOMAIN runs :
        LET run == runs[r]
        IN  (AllSearched(run) /\ MatchedUris(run) = <<>>) =>
                /\ WriteRequests(run) = <<>>
                /\ run.pc = "done"
                /\ Last(run.emitted) = "No tracks found."
                /\ \A e \in Range(run.emitted) : ~IsFailedEntry(e)
                /\ \E p \in PlaylistsOf(run) : playlists[p].tracks = <<>>
                /\ playlistUrl = run.playlist.external_urls.spotify

\* Of two searches one failed and one found nothing.
ZeroMatchWitness ==
    \E r \in DOMAIN runs :
        /\ AllSearched(runs[r])
        /\ Len(runs[r].trackNames) = 2
        /\ ~Served(SearchResponse(runs[r], 1))
        /\ Served(SearchResponse(runs[r], 2))
        /\ MatchedUris(runs[r]) = <<>>

(***************************************************************************)
(* C8.  Append-failure law, on the run over the folder Album.              *)
(***************************************************************************)
\* The write calls of the run that failed.
FailedWrites(run) ==
    {j \in 1..Len(run.received) :
        IsAddTracksRequest(run.sent[j]) /\ ~Served(run.received[j])}

\* C8: when a write call of addTracks fails, the run ends with a failure
\* entry and without a success count; the failed call is its last request;
\* the playlist holds the chunks written before it; and the playlist and the
\* link to it stay.
AppendFailureLaw ==
    \A r \in DOMAIN runs :
        LET run == runs[r]
        IN  \A j \in FailedWrites(run) :
                /\ j = Len(run.sent)
                /\ run.pc = "failed"
                /\ IsFailedEntry(Last(run.emitted))
                /\ \A e \in Range(run.emitted) : ~IsPrefix("Added ", e)
                /\ PlaylistsOf(run) # {}
                /\ \A p \in PlaylistsOf(run) :
                       playlists[p].tracks
                           = SubSeq(run.uris, 1, 100 * (Len(WriteRequests(run)) - 1))
                /\ playlistUrl = run.playlist.external_urls.spotify

\* The third write call failed after two chunks were written.
AppendFailureWitness ==
    \E r \in DOMAIN runs :
        /\ FailedWrites(runs[r]) # {}
        /\ Len(WriteRequests(runs[r])) = 3
        /\ \E p \in PlaylistsOf(runs[r]) : Len(playlists[p].tracks) = 200

(***************************************************************************)
(* C9.  The end-to-end log.                                                *)
(***************************************************************************)
ScenarioNames == <<"Bohemian Rhapsody Queen", "NoMatchXYZ123">>

\* The run of the scenario: the two files of MyFolder, every request served,
\* the first search matched and the second did not.
ScenarioRun(run) ==
    /\ run.trackNames = ScenarioNames
    /\ run.folderName = "MyFolder"
    /\ Len(run.received) = 5
    /\ \A j \in 1..5 : Served(run.received[j])
    /\ Matched(run.received[3])
    /\ ~Matched(run.received[4])

\* C9 as stated: every step of the pipeline, profile resolution included,
\* appends its own entry to the log.
ProfileStepLogs ==
    [][\A r \in DOMAIN runs :
          (runs[r].pc = "getUserProfile" /\ runs'[r].pc = "createPlaylist")
              => Len(runs'[r].emitted) = Len(runs[r].emitted) + 1]_vars

\* C9 as amended: the entries of the scenario's run are, in order, processing
\* started (appended before the profile request), playlist created with its
\* URL, found, not found, added 1 tracks; resolving the profile appends none.
EndToEndLog ==
    /\ [j \in 1..2 |-> FolderFiles("MyFolder", 2)[j].name]
           = <<"02 - Queen - Bohemian Rhapsody.mp3", "NoMatchXYZ123.flac">>
    /\ InOrderNames(FolderFiles("MyFolder", 2)) = ScenarioNames
    /\ \A r \in DOMAIN runs :
           LET run == runs[r]
           IN  /\ run.pc \in {"getUserProfile", "createPlaylist"} =>
                      run.emitted = <<"\nProcessing...">>
               /\ ScenarioRun(run) =>
                      /\ run.sent[2].body.name = "MyFolder"
                      /\ run.emitted
                             = <<"\nProcessing...",
                                 "Playlist created: "
                                     \o run.received[2].json.external_urls.spotify,
                                 "Found: Bohemian Rhapsody Queen",
                                 "Not found: NoMatchXYZ123",
                                 "Added 1 tracks!">>

EndToEndWitness ==
    \E r \in DOMAIN runs :
        /\ ScenarioRun(runs[r])
        /\ runs[r].pc = "done"
        /\ IsPrefix("https://", runs[r].received[2].json.external_urls.spotify)

(***************************************************************************)
(* C10.  The reference of parseTrackName, written on positions of the      *)
(* input rather than by scanning it.                                       *)
(***************************************************************************)
\* How many characters from position from on are of the class, unbroken.
RunLength(s, from, class) ==
    Cardinality({i \in from..Len(s) : \A j \in from..i : Char(s, j) \in class})

RefTrim(s) ==
    LET inked == {i \in 1..Len(s) : Char(s, i) \notin WhiteSpace}
    IN  IF inked = {} THEN "" ELSE SubSeq(s, Min(inked), Max(inked))

\* Where " - " occurs.
DelimiterPositions(s) == {i \in 1..(Len(s) - 2) : SubSeq(s, i, i + 2) = " - "}

\* Title, then artist, around the first " - "; the trimmed name without one.
RefArrange(s) ==
    LET at == DelimiterPositions(s)
    IN  IF at = {} THEN RefTrim(s)
        ELSE RefTrim(SubSeq(s, Min(at) + 3, Len(s))) \o " "
                 \o RefTrim(SubSeq(s, 1, Min(at) - 1))

\* The reference: the extension is the last "." and what follows
\* it when that is at least one character and holds no "/"; the prefix is one
\* or more digits, then whitespace, then any of "-._)", then whitespace, each
\* run possibly empty; title and artist are trimmed.
RefStem(s) ==
    LET dots == {i \in 1..Len(s) : Char(s, i) = "."}
        d == Max(dots)
    IN  IF /\ dots # {}
           /\ d < Len(s)
           /\ \A j \in (d + 1)..Len(s) : Char(s, j) # "/"
        THEN SubSeq(s, 1, d - 1)
        ELSE s

RefBody(s) ==
    LET d == RunLength(s, 1, Digits)
        a == RunLength(s, d + 1, WhiteSpace)
        p == RunLength(s, d + a + 1, Separators)
        b == RunLength(s, d + a + p + 1, WhiteSpace)
    IN  IF d = 0 THEN s ELSE SubSeq(s, d + a + p + b + 1, Len(s))

RefNormalize(s) == RefArrange(RefBody(RefStem(s)))

\* The reference as stated: as the one above, but the run of digits that
\* opens the prefix is optional.
StatedBody(s) ==
    LET d == RunLength(s, 1, Digits)
        a == RunLength(s, d + 1, WhiteSpace)
        p == RunLength(s, d + a + 1, Separators)
        b == RunLength(s, d + a + p + 1, WhiteSpace)
    IN  SubSeq(s, d + a + p + b + 1, Len(s))

StatedNormalize(s) == RefArrange(StatedBody(RefStem(s)))

\* C10 as stated: parseTrackName returns the stated reference on every input.
StatedNormalizerReference ==
    ret.called => ret.value = StatedNormalize(arg)

\* C10 as amended: parseTrackName returns, on every input, the amended
\* reference; in particular "Title Artist" for "05 - Artist - Title.mp3",
\* "Interlude" for "Interlude.wav" and "" for "".
NormalizerReference ==
    ret.called =>
        /\ ret.value = RefNormalize(arg)
        /\ arg = "05 - Artist - Title.mp3" => ret.value = "Title Artist"
        /\ arg = "Interlude.wav" => ret.value = "Interlude"
        /\ arg = "" => ret.value = ""

NormalizerWitness ==
    /\ ret.called
    /\ arg = "05 - Artist - Title.mp3"
    /\ ret.value = "Title Artist"

(***************************************************************************)
(* What login did, read from the state.                                    *)
(***************************************************************************)
\* What the user can see of the application, and what a caller can read.
Observable == <<accessToken, location, storage, logs, playlistUrl>>

ExchangesOf(messages) == SelectSeq(messages, LAMBDA m : m.to = "exchange")

\* The effect is about to run with a code in the URL and no verifier stored.
VerifierMissing ==
    /\ location.page = "app"
    /\ effect.due
    /\ ~Falsy(getAuthCode)
    /\ Falsy(accessToken)
    /\ Falsy(storage)

(***************************************************************************)
(* C11.  Missing-verifier law.                                             *)
(***************************************************************************)
\* C11: when the effect runs with a code in the URL and no verifier stored,
\* the attempt fails observably: it sends no exchange request and does not
\* log in, and what can be observed of the application differs after it.
MissingVerifierFails ==
    [][(VerifierMissing /\ ~effect'.due) =>
          /\ network' = network
          /\ Falsy(accessToken')
          /\ Observable' # Observable]_vars

(***************************************************************************)
(* C12.  Token-exchange failure law.                                       *)
(***************************************************************************)
\* C12: when the exchange request ends in a network error or in a response
\* that is not 2xx, nothing of that response is stored as the credential, the
\* application is not logged in, and the code stays in the URL.
ExchangeFailureLaw ==
    [][\A i \in DOMAIN effect.inflight : \A res \in ExchangeResponses :
          (~Served(res) /\ ExchangeSettled(i, res)) =>
              /\ accessToken' = accessToken
              /\ Falsy(accessToken')
              /\ location' = location]_vars

(***************************************************************************)
(* C13.  Verifier confidentiality.                                         *)
(***************************************************************************)
Contains(str, part) ==
    \E i \in 1..(Len(str) - Len(part) + 1) : SubSeq(str, i, i + Len(part) - 1) = part

\* The verifiers drawn so far.
VerifiersDrawn == {"verifier" \o ToString(n) : n \in 1..login.draws}

\* C13: a message to the authorization endpoint carries the challenge of a
\* verifier drawn and no verifier in any of its parameters; a verifier leaves
\* the browser only in the body of an exchange request to the backend, and
\* is never put in the URL of the application.
VerifierConfidential ==
    /\ \A j \in 1..Len(network) :
           LET m == network[j].message
           IN  IF network[j].to = "authorize"
               THEN /\ m.endpoint = "https://accounts.spotify.com/authorize"
                    /\ m.code_challenge_method = "S256"
                    /\ \E n \in 1..login.draws :
                           m.code_challenge = "challenge" \o ToString(n)
                    /\ \A f \in DOMAIN m : \A v \in VerifiersDrawn :
                           ~Contains(m[f], v)
               ELSE /\ network[j].to = "exchange"
                    /\ IsPrefix(BACKEND_URL, m.url)
                    /\ m.body.code_verifier \in VerifiersDrawn
    /\ \A v \in VerifiersDrawn : ~Contains(location.code, v)
    /\ storage \in VerifiersDrawn \cup {NoItem}

\* Both messages of a login have left the browser.
VerifierConfidentialWitness ==
    /\ \E j \in 1..Len(network) : network[j].to = "authorize"
    /\ \E j \in 1..Len(network) :
           /\ network[j].to = "exchange"
           /\ network[j].message.body.code_verifier = storage
           /\ network[j].message.body.code = "code1"

(***************************************************************************)
(* C14.  Authorization-header ownership.                                   *)
(***************************************************************************)
\* C14: whatever headers the caller passes, the Authorization header of the
\* request handed to fetch is "Bearer " and the credential passed.
HeaderOwnership ==
    ret.called => ret.value.headers.Authorization = "Bearer " \o arg.token

(***************************************************************************)
(* C15.  Append-only log.                                                  *)
(***************************************************************************)
\* C15: every change of the log appends to it: the log before a step is a
\* prefix of the log after it.
AppendOnlyLog == [][IsPrefix(logs, logs')]_vars

(***************************************************************************)
(* C16.  Stale-code protection.                                            *)
(***************************************************************************)
ExchangedCodes(messages) ==
    [j \in 1..Len(ExchangesOf(messages)) |-> ExchangesOf(messages)[j].message.body.code]

\* C16 as stated: for one authorization code at most one exchange request
\* is ever sent.
OneExchangePerCode ==
    \A i, j \in 1..Len(ExchangedCodes(network)) :
        i # j => ExchangedCodes(network)[i] # ExchangedCodes(network)[j]

\* The step sends an exchange request.
ExchangeSent ==
    /\ Len(network') = Len(network) + 1
    /\ network'[Len(network')].to = "exchange"

\* C16 as amended: the step that stores the credential removes the code from
\* the URL and sends nothing, so a logged-in page has no code in its URL; an
\* exchange request is sent only while the page is not logged in, for the
\* code in the URL, and while no other exchange of the page is in flight, so
\* the effect run that follows the storing sends none.
StaleCodeProtection ==
    /\ [](~Falsy(accessToken) => location.code = NoCode)
    /\ [][/\ (accessToken' # accessToken /\ ~Falsy(accessToken')) =>
                 (location'.code = NoCode /\ network' = network)
          /\ ExchangeSent =>
                 /\ Falsy(accessToken)
                 /\ location.code # NoCode
                 /\ network'[Len(network')].message.body.code = location.code
                 /\ effect.inflight = <<>>]_vars

\* The credential is stored, the effect has run again, and the one exchange
\* request of the login is the only one.
StaleCodeWitness ==
    /\ accessToken = Token
    /\ ~effect.due
    /\ location = [page |-> "app", code |-> NoCode]
    /\ ExchangedCodes(network) = <<"code1">>

(***************************************************************************)
(* C17.  Step ordering.                                                    *)
(***************************************************************************)
IsProfileRequest(req) == req.method = "GET" /\ req.url = "https://api.spotify.com/v1/me"

\* The place of a request in the order profile, create, search, append.
StepRank(req) ==
    IF IsProfileRequest(req) THEN 1
    ELSE IF IsCreateRequest(req) THEN 2
    ELSE IF IsSearchRequest(req) THEN 3
    ELSE IF IsAddTracksRequest(req) THEN 4
    ELSE 0

\* C17: the requests of a run go out one at a time, each after the answer to
\* the one before, in the order profile, create, searches, append chunks; a
\* search goes out only after the create request was served, an append only
\* after every search was answered; profile and create go out at most once.
StepOrdering ==
    \A r \in DOMAIN runs :
        LET run == runs[r]
            sent == run.sent
            answered == Len(run.received)
        IN  /\ Len(sent) - answered \in {0, 1}
            /\ (run.request # NoRequest) <=> (Len(sent) = answered + 1)
            /\ run.request # NoRequest => run.request = sent[Len(sent)]
            /\ \A j \in 1..Len(sent) : StepRank(sent[j]) \in 1..4
            /\ \A i, j \in 1..Len(sent) : i < j => StepRank(sent[i]) <= StepRank(sent[j])
            /\ Cardinality({j \in 1..Len(sent) : StepRank(sent[j]) = 1}) <= 1
            /\ Cardinality({j \in 1..Len(sent) : StepRank(sent[j]) = 2}) <= 1
            /\ Len(sent) > 0 => StepRank(sent[1]) = 1
            /\ \A j \in 1..Len(sent) :
                   StepRank(sent[j]) = 3 =>
                       \E i \in 1..(j - 1) :
                           /\ StepRank(sent[i]) = 2
                           /\ i <= answered
                           /\ Served(run.received[i])
            /\ \A j \in 1..Len(sent) :
                   StepRank(sent[j]) = 4 =>
                       /\ Cardinality({i \in 1..(j - 1) : StepRank(sent[i]) = 3})
                              = Len(run.trackNames)
                       /\ answered >= j - 1

\* A run over two names has made its five calls and is done.
StepOrderingWitness ==
    \E r \in DOMAIN runs :
        /\ runs[r].pc = "done"
        /\ [j \in 1..Len(runs[r].sent) |-> StepRank(runs[r].sent[j])] = <<1, 2, 3, 3, 4>>
        /\ Len(runs[r].received) = 5

(***************************************************************************)
(* C18.  Verifier lifecycle.                                               *)
(***************************************************************************)
\* C18: once the backend has answered an exchange request, with the token or
\* with a refusal, the storage slot holds no verifier.
VerifierCleared ==
    [][\A i \in DOMAIN effect.inflight : \A res \in ExchangeResponses :
          (res.kind = "response" /\ ExchangeSettled(i, res)) => storage' = NoItem]_vars

(***************************************************************************)
(* C19.  Run termination.                                                  *)
(***************************************************************************)
Terminal(run) == run.pc \in {"alerted", "done", "failed"}

\* The run has ended with one of its three closing entries, after a search
\* for each of its names.
TerminalLogged(run) ==
    /\ run.pc \in {"done", "failed"}
    /\ \/ IsPrefix("Added ", Last(run.emitted))
       \/ Last(run.emitted) = "No tracks found."
       \/ IsFailedEntry(Last(run.emitted))
    /\ Len(SelectSeq(run.sent, IsSearchRequest)) = Len(run.trackNames)
    /\ Len(run.received) = Len(run.sent)

\* C19: when every request is answered in the end, a started run ends, and a
\* run that has its playlist ends with a closing entry after it has searched
\* for every name, whatever the answers are.
RunTermination ==
    \A r \in RunSlots :
        /\ (runs[r].pc # "idle") ~> Terminal(runs[r])
        /\ []((PassedCreation(runs[r]) /\ Terminal(runs[r])) => TerminalLogged(runs[r]))

\* A run ended although two of its requests were answered 429.
RunTerminationWitness ==
    \E r \in RunSlots :
        /\ TerminalLogged(runs[r])
        /\ PassedCreation(runs[r])
        /\ Cardinality({j \in 1..Len(runs[r].received) : RateLimited(runs[r].received[j])}) = 2

(***************************************************************************)
(* C20.  Overlapping-run isolation.                                        *)
(***************************************************************************)
Started(run) == run.pc \notin {"idle", "alerted"}

\* The run works on a pick as a whole: its names are those of the files of
\* one pick, in order, and its collection name is the folder of that pick.
WorksOnOnePick(run) ==
    \E p \in OverlapPicks :
        /\ run.trackNames = InOrderNames(p)
        /\ IsPrefix(run.folderName \o "/", p[1].webkitRelativePath)

\* C20: of two calls of handleCreatePlaylist that overlap, each works on the
\* names and the folder name of the render it was started in, whatever is
\* picked later; each creates its own playlist under that name; and what a
\* call appends to its playlist are the matches of its own searches, in the
\* order of its names.
OverlapIsolation ==
    /\ [](\A r \in DOMAIN runs :
             LET run == runs[r]
                 searches == SelectSeq(run.sent, IsSearchRequest)
             IN  Started(run) =>
                     /\ WorksOnOnePick(run)
                     /\ \A q \in Range(run.sent) :
                            /\ IsCreateRequest(q) => q.body.name = run.folderName
                            /\ IsAddTracksRequest(q) => q.url = TracksUrl(run.playlist.id)
                     /\ \A j \in 1..Len(searches) :
                            QueryOf(searches[j].url) = encodeURIComponent(run.trackNames[j])
                     /\ run.uris = IF PassedCreation(run) THEN MatchedUris(run) ELSE <<>>
                     /\ PassedCreation(run) =>
                            /\ IsPrefix(Concat(Chunks(run)), MatchedUris(run))
                            /\ Cardinality(PlaylistsOf(run)) = 1
                     /\ \A p \in PlaylistsOf(run) :
                            /\ playlists[p].name = run.folderName
                            /\ IsPrefix(playlists[p].tracks, MatchedUris(run))
                            /\ run.pc = "done" => playlists[p].tracks = MatchedUris(run)
                     /\ \A q \in DOMAIN runs \ {r} :
                            PlaylistsOf(run) \cap PlaylistsOf(runs[q]) = {})
    /\ [][\A r \in DOMAIN runs :
             /\ (runs[r].pc = "idle" /\ runs'[r].pc # "idle") =>
                    (runs'[r].trackNames = trackNames /\ runs'[r].folderName = folderName)
             /\ runs[r].pc # "idle" =>
                    /\ runs'[r].trackNames = runs[r].trackNames
                    /\ runs'[r].folderName = runs[r].folderName]_vars

\* Two calls over different folders are both suspended at their append
\* request, each with a match, and another folder was picked after the
\* second call started.
OverlapWitness ==
    /\ runs[1].pc = "addTracks"
    /\ runs[2].pc = "addTracks"
    /\ runs[1].folderName # runs[2].folderName
    /\ Len(runs[1].uris) = 2
    /\ Len(runs[2].uris) = 1
    /\ trackNames # runs[2].trackNames

====
